---- MODULE Spec2Model ----
\* A model of filter_precommit.py: get_changed_lines scans the staged diff,
\* read_saved_logs loads the saved log, filter_logs selects the log lines that
\* refer to changed lines, and main sequences the three and prints the result.
\* Text is modelled character by character: a string is a sequence of
\* one-character strings.
EXTENDS Integers, Sequences, FiniteSets, TLC

\* ---------------------------------------------------------------- bounds
MaxDiffLines == 4
MaxLogLines == 2
MaxLineNo == 2

\* ------------------------------------------------ Python string helpers
SetMin(S) == CHOOSE m \in S : \A n \in S : m <= n
SetMax(S) == CHOOSE m \in S : \A n \in S : m >= n

\* sub occurs in s at the (1-based) position p
Occurs(s, sub, p) ==
    /\ p + Len(sub) - 1 <= Len(s)
    /\ SubSeq(s, p, p + Len(sub) - 1) = sub

\* s.startswith(p)
StartsWith(s, p) == Occurs(s, p, 1)

\* s[n:]
Drop(s, n) == SubSeq(s, n + 1, Len(s))

Positions(s, sub) == {p \in 1..(Len(s) + 1) : Occurs(s, sub, p)}

\* sub in s
Contains(s, sub) == Positions(s, sub) # {}

\* s.index(sub), defined when sub occurs in s (else Python raises ValueError)
Index(s, sub) == SetMin(Positions(s, sub))

IsSpace(c) == c \in {" ", "\t"}

\* s.strip()
Strip(s) ==
    LET idx == {k \in 1..Len(s) : ~IsSpace(s[k])}
    IN  IF idx = {} THEN <<>> ELSE SubSeq(s, SetMin(idx), SetMax(idx))

Digits == <<"0", "1", "2", "3", "4", "5", "6", "7", "8", "9">>

IsDigit(c) == \E d \in 1..10 : Digits[d] = c

DigitVal(c) == (CHOOSE d \in 1..10 : Digits[d] = c) - 1

\* int(ds) for a non-empty string of decimal digits
RECURSIVE ToInt(_)
ToInt(ds) ==
    IF ds = <<>> THEN 0
    ELSE 10 * ToInt(SubSeq(ds, 1, Len(ds) - 1)) + DigitVal(ds[Len(ds)])

\* last position of the maximal run of digits of s that starts at p
\* (p - 1 when s has no digit at p): what a greedy \d+ consumes
DigitRun(s, p) ==
    SetMin({k \in p..(Len(s) + 1) : k = Len(s) + 1 \/ ~IsDigit(s[k])}) - 1

\* ------------------------------------------------------------- literals
None == <<"None">>
MARKER == <<"s", "r", "c", "/">>
PLUS == <<"+">>
PLUS3 == <<"+", "+", "+">>
NEWFILE == <<"+", "+", "+", " ", "b", "/">>
AT2 == <<"@", "@">>
SPACE == <<" ">>
MINUS == <<"-">>

\* Python truthiness of current_file (None and "" are falsy)
Truthy(f) == f # None /\ f # <<>>

\* --------------------------------- re.match(r"@@ -\d+,\d+ \+(\d+),\d+ @@")
\* position after the literal lit when it occurs at p, else 0
After(s, p, lit) == IF p > 0 /\ Occurs(s, lit, p) THEN p + Len(lit) ELSE 0

\* position after a non-empty run of digits at p, else 0
AfterDigits(s, p) ==
    IF p > 0 /\ DigitRun(s, p) >= p THEN DigitRun(s, p) + 1 ELSE 0

HunkP1(line) == After(line, 1, <<"@", "@", " ", "-">>)
HunkP2(line) == After(line, AfterDigits(line, HunkP1(line)), <<",">>)
HunkP3(line) == After(line, AfterDigits(line, HunkP2(line)), <<" ", "+">>)
HunkP4(line) == After(line, AfterDigits(line, HunkP3(line)), <<",">>)
HunkP5(line) == After(line, AfterDigits(line, HunkP4(line)), <<" ", "@", "@">>)

HunkMatches(line) == HunkP5(line) > 0

\* match.group(1), defined when HunkMatches(line)
HunkGroup1(line) == SubSeq(line, HunkP3(line), DigitRun(line, HunkP3(line)))

\* ------------------------ re.compile(r"^(.*?):(\d+):(?:\d+:)?\s*(.*)$")
\* the positions of a colon followed by digits and a colon; the lazy first
\* group stops at the first of them, the rest of the pattern matches anything
LogSplits(log) ==
    {p \in 1..Len(log) :
        /\ log[p] = ":"
        /\ DigitRun(log, p + 1) >= p + 1
        /\ DigitRun(log, p + 1) < Len(log)
        /\ log[DigitRun(log, p + 1) + 1] = ":"}

LogMatches(log) == LogSplits(log) # {}

\* group 1 and group 2 of the match
LogPath(log) == SubSeq(log, 1, SetMin(LogSplits(log)) - 1)
LogLineNum(log) ==
    SubSeq(log, SetMin(LogSplits(log)) + 1,
           DigitRun(log, SetMin(LogSplits(log)) + 1))

\* ------------------------------------------------------- input alphabets
\* lines `git diff --staged` can print
DiffHeaderA == <<"+", "+", "+", " ", "b", "/", "s", "r", "c", "/", "a">>
DiffHeaderB == <<"+", "+", "+", " ", "b", "/", "s", "r", "c", "/", "b">>
DiffHunk == <<"@", "@", " ", "-", "1", ",", "2", " ", "+", "1", ",", "2", " ", "@", "@">>
DiffHunkShort == <<"@", "@", " ", "-", "0", ",", "0", " ", "+", "1", " ", "@", "@">>
DiffAdded == <<"+", "x">>
DiffContext == <<" ", "x">>
DiffDeleted == <<"-", "x">>
DiffAddedPlusPlus == <<"+", "+", "+", "x">>
DiffIndex == <<"i", "n", "d", "e", "x">>

DiffLineSet ==
    {DiffHeaderA, DiffHeaderB, DiffHunk, DiffHunkShort, DiffAdded,
     DiffContext, DiffDeleted, DiffAddedPlusPlus, DiffIndex}

\* lines the saved log can hold
LogA1 == <<"s", "r", "c", "/", "a", ":", "1", ":", " ", "m">>
LogA2Col == <<"s", "r", "c", "/", "a", ":", "2", ":", "1", ":", " ", "m">>
LogPrefixedA1 == <<"/", "h", "/", "s", "r", "c", "/", "a", ":", "1", ":", " ", "m">>
LogSrcSrcA1 == <<"s", "r", "c", "/", "s", "r", "c", "/", "a", ":", "1", ":", " ", "m">>
LogNoMarker == <<"x", ":", "1", ":", " ", "m">>
LogSummaryA == <<"f", "m", "t", " ", "s", "r", "c", "/", "a">>
LogPlain == <<"o", "k">>
LogB1 == <<"s", "r", "c", "/", "b", ":", "1", ":", " ", "m">>

LogLineSet ==
    {LogA1, LogA2Col, LogPrefixedA1, LogSrcSrcA1, LogNoMarker, LogSummaryA,
     LogPlain, LogB1}

KeyA == <<"s", "r", "c", "/", "a">>
KeyB == <<"s", "r", "c", "/", "b">>
KeySrcA == <<"s", "r", "c", "/", "s", "r", "c", "/", "a">>

SeqsUpTo(S, n) == UNION {[1..k -> S] : k \in 0..n}

DiffTexts == SeqsUpTo(DiffLineSet, MaxDiffLines)
LogTexts == SeqsUpTo(LogLineSet, MaxLogLines)

\* the mappings filter_logs is called with directly
KeySet == {KeyA, KeySrcA}
ChangedLineSets ==
    UNION {[K -> SUBSET (1..MaxLineNo)] : K \in SUBSET KeySet}

\* ---------------------------------------------------------------- state
VARIABLES
    pc,             \* where the run is
    log_exists,     \* whether the file at output_path exists
    diff_output,    \* get_changed_lines: the lines of result.stdout
    diff_pos,       \* get_changed_lines: position of the for loop
    changed_lines,  \* the mapping file -> set of line numbers
    current_file,   \* get_changed_lines: current_file
    current_line,   \* get_changed_lines: current_line
    logs,           \* the lines read_saved_logs returned
    log_pos,        \* filter_logs: position of the for loop
    filtered,       \* filter_logs: filtered
    stdout,         \* what was printed to standard output
    stderr,         \* what was printed to standard error
    exit_status,    \* <<>> while running, <<status>> once exited
    git_calls,      \* number of `git diff --staged` invocations
    log_reads       \* number of attempts to open the log file

vars ==
    <<pc, log_exists, diff_output, diff_pos, changed_lines, current_file,
      current_line, logs, log_pos, filtered, stdout, stderr, exit_status,
      git_calls, log_reads>>

scanVars == <<diff_output, diff_pos, current_file, current_line>>
filterVars == <<logs, log_pos, filtered>>
ioVars == <<stdout, stderr, exit_status>>

EmptyMapping == [k \in {} |-> {}]

Out(kind, text) == [kind |-> kind, text |-> text]

\* a plausible slip: "nothing staged" read as "no added line"
MappingIsEmpty_NoAddedLine(cl) == \A k \in DOMAIN cl : cl[k] = {}

\* `not changed_lines`
MappingIsEmpty(cl) == DOMAIN cl = {}

\* changed_lines[current_file] = set()
WithFreshKey(cl, f) ==
    [k \in (DOMAIN cl) \cup {f} |-> IF k = f THEN {} ELSE cl[k]]

\* changed_lines[current_file].add(current_line)
WithLine(cl, f, n) == [cl EXCEPT ![f] = @ \cup {n}]

\* a plausible slip: the path is stripped but not cut at the marker
NormalizePath_NoCut(file_path) == Strip(file_path)

\* file_path.strip(); file_path[file_path.index("src/"):]
NormalizePath(file_path) ==
    Drop(Strip(file_path), Index(Strip(file_path), MARKER) - 1)

\* a plausible slip: the file is looked up, the line number is not
KeepStructured_FileOnly(file_path, line_num, cl) == file_path \in DOMAIN cl

\* file_path in changed_lines and line_num in changed_lines[file_path]
KeepStructured(file_path, line_num, cl) ==
    /\ file_path \in DOMAIN cl
    /\ line_num \in cl[file_path]

\* a plausible slip: the log line is looked up as a key
KeepUnstructured_AsKey(log, cl) == log \in DOMAIN cl

\* any(file_path in log for file_path in changed_lines)
KeepUnstructured(log, cl) == \E file_path \in DOMAIN cl : Contains(log, file_path)

\* a plausible slip: filtered.insert(0, log)
AppendLog_AtFront(f, log) == <<log>> \o f

\* filtered.append(log)
AppendLog(f, log) == Append(f, log)

\* "\n".join(filtered_logs), one entry per printed line
PrintedLogs(f) == [k \in 1..Len(f) |-> Out("log", f[k])]

\* ----------------------------------------------------------------- main
Init ==
    /\ pc = "main"
    /\ log_exists \in BOOLEAN
    /\ diff_output = <<>>
    /\ diff_pos = 1
    /\ changed_lines = EmptyMapping
    /\ current_file = None
    /\ current_line = 0
    /\ logs = <<>>
    /\ log_pos = 1
    /\ filtered = <<>>
    /\ stdout = <<>>
    /\ stderr = <<>>
    /\ exit_status = <<>>
    /\ git_calls = 0
    /\ log_reads = 0

\* main: the first banner, then the call of get_changed_lines
MainStart ==
    /\ pc = "main"
    /\ stdout' = Append(stdout, Out("banner_changed", <<>>))
    /\ pc' = "git"
    /\ UNCHANGED <<log_exists, changed_lines, scanVars, filterVars, stderr,
                   exit_status, git_calls, log_reads>>

\* get_changed_lines: git succeeds and prints some diff text
GitDiffOk ==
    /\ pc = "git"
    /\ \E d \in DiffTexts : diff_output' = d
    /\ diff_pos' = 1
    /\ changed_lines' = EmptyMapping
    /\ current_file' = None
    /\ current_line' = 0
    /\ git_calls' = git_calls + 1
    /\ pc' = "scan"
    /\ UNCHANGED <<log_exists, filterVars, ioVars, log_reads>>

\* get_changed_lines: CalledProcessError, sys.exit(1)
GitDiffFail ==
    /\ pc = "git"
    /\ git_calls' = git_calls + 1
    /\ stderr' = Append(stderr, Out("git_error", <<>>))
    /\ exit_status' = <<1>>
    /\ pc' = "exited"
    /\ UNCHANGED <<log_exists, changed_lines, scanVars, filterVars, stdout,
                   log_reads>>

\* get_changed_lines: one iteration of the loop over the diff lines
ScanLine ==
    /\ pc = "scan"
    /\ diff_pos <= Len(diff_output)
    /\ LET line == diff_output[diff_pos] IN
        IF StartsWith(line, NEWFILE) THEN
            /\ current_file' = Strip(Drop(line, 6))
            /\ changed_lines' = WithFreshKey(changed_lines, Strip(Drop(line, 6)))
            /\ current_line' = 0
        ELSE IF StartsWith(line, AT2) THEN
            /\ current_line' =
                  IF HunkMatches(line) /\ Truthy(current_file)
                  THEN ToInt(HunkGroup1(line)) ELSE current_line
            /\ UNCHANGED <<current_file, changed_lines>>
        ELSE IF /\ StartsWith(line, PLUS)
                /\ Truthy(current_file)
                /\ ~StartsWith(line, PLUS3) THEN
            /\ changed_lines' = WithLine(changed_lines, current_file, current_line)
            /\ current_line' = current_line + 1
            /\ UNCHANGED current_file
        ELSE IF StartsWith(line, SPACE) \/ StartsWith(line, MINUS) THEN
            /\ current_line' = current_line + 1
            /\ UNCHANGED <<current_file, changed_lines>>
        ELSE
            UNCHANGED <<current_file, current_line, changed_lines>>
    /\ diff_pos' = diff_pos + 1
    /\ UNCHANGED <<pc, log_exists, diff_output, filterVars, ioVars, git_calls,
                   log_reads>>

\* get_changed_lines returns changed_lines; its locals are gone
ScanReturn ==
    /\ pc = "scan"
    /\ diff_pos > Len(diff_output)
    /\ diff_output' = <<>>
    /\ diff_pos' = 1
    /\ current_file' = None
    /\ current_line' = 0
    /\ pc' = "staged_check"
    /\ UNCHANGED <<log_exists, changed_lines, filterVars, ioVars, git_calls,
                   log_reads>>

\* main: `if not changed_lines`, the message and sys.exit(0)
NothingStaged ==
    /\ pc = "staged_check"
    /\ MappingIsEmpty(changed_lines)
    /\ stderr' = Append(stderr, Out("nothing_staged", <<>>))
    /\ exit_status' = <<0>>
    /\ pc' = "exited"
    /\ UNCHANGED <<log_exists, changed_lines, scanVars, filterVars, stdout,
                   git_calls, log_reads>>

\* read_saved_logs: the file opens and holds some lines
ReadLogOk ==
    /\ pc = "staged_check"
    /\ ~MappingIsEmpty(changed_lines)
    /\ log_exists
    /\ \E l \in LogTexts : logs' = l
    /\ log_reads' = log_reads + 1
    /\ pc' = "filter_enter"
    /\ UNCHANGED <<log_exists, changed_lines, scanVars, log_pos, filtered,
                   ioVars, git_calls>>

\* a plausible slip: the missing log file reported, then sys.exit(0)
ReadLogMissing_ExitZero ==
    /\ pc = "staged_check"
    /\ DOMAIN changed_lines # {}
    /\ ~log_exists
    /\ log_reads' = log_reads + 1
    /\ stderr' = Append(stderr, Out("log_not_found", <<>>))
    /\ exit_status' = <<0>>
    /\ pc' = "exited"
    /\ UNCHANGED <<log_exists, changed_lines, diff_output, diff_pos,
                   current_file, current_line, logs, log_pos, filtered,
                   stdout, git_calls>>

\* read_saved_logs: FileNotFoundError, sys.exit(1)
ReadLogMissing ==
    /\ pc = "staged_check"
    /\ ~MappingIsEmpty(changed_lines)
    /\ ~log_exists
    /\ log_reads' = log_reads + 1
    /\ stderr' = Append(stderr, Out("log_not_found", <<>>))
    /\ exit_status' = <<1>>
    /\ pc' = "exited"
    /\ UNCHANGED <<log_exists, changed_lines, scanVars, filterVars, stdout,
                   git_calls>>

\* filter_logs: the early return on an empty mapping, else the loop set-up
FilterEnter ==
    /\ pc = "filter_enter"
    /\ filtered' = <<>>
    /\ log_pos' = 1
    /\ pc' = IF MappingIsEmpty(changed_lines) THEN "print" ELSE "filter"
    /\ UNCHANGED <<log_exists, changed_lines, scanVars, logs, ioVars,
                   git_calls, log_reads>>

\* filter_logs: one iteration of the loop over the log lines
FilterLine ==
    /\ pc = "filter"
    /\ log_pos <= Len(logs)
    /\ LET log == logs[log_pos] IN
        IF LogMatches(log) THEN
            IF ~Contains(Strip(LogPath(log)), MARKER) THEN
                \* str.index raises ValueError, which nothing catches
                /\ pc' = "raised"
                /\ UNCHANGED <<filtered, log_pos>>
            ELSE
                /\ filtered' =
                      IF KeepStructured(NormalizePath(LogPath(log)),
                                        ToInt(LogLineNum(log)), changed_lines)
                      THEN AppendLog(filtered, log) ELSE filtered
                /\ log_pos' = log_pos + 1
                /\ UNCHANGED pc
        ELSE
            /\ filtered' =
                  IF KeepUnstructured(log, changed_lines)
                  THEN AppendLog(filtered, log) ELSE filtered
            /\ log_pos' = log_pos + 1
            /\ UNCHANGED pc
    /\ UNCHANGED <<log_exists, changed_lines, scanVars, logs, ioVars,
                   git_calls, log_reads>>

\* filter_logs returns filtered
FilterReturn ==
    /\ pc = "filter"
    /\ log_pos > Len(logs)
    /\ pc' = "print"
    /\ UNCHANGED <<log_exists, changed_lines, scanVars, filterVars, ioVars,
                   git_calls, log_reads>>

\* the ValueError leaves main: traceback, exit status 1
UncaughtValueError ==
    /\ pc = "raised"
    /\ stderr' = Append(stderr, Out("traceback", <<>>))
    /\ exit_status' = <<1>>
    /\ pc' = "exited"
    /\ UNCHANGED <<log_exists, changed_lines, scanVars, filterVars, stdout,
                   git_calls, log_reads>>

\* main: the second banner and the filtered lines or the no-logs message
MainPrint ==
    /\ pc = "print"
    /\ stdout' =
          Append(stdout, Out("banner_filtered", <<>>)) \o
          (IF filtered # <<>> THEN PrintedLogs(filtered)
           ELSE <<Out("no_logs", <<>>)>>)
    /\ exit_status' = <<0>>
    /\ pc' = "exited"
    /\ UNCHANGED <<log_exists, changed_lines, scanVars, filterVars, stderr,
                   git_calls, log_reads>>

Next ==
    \/ MainStart
    \/ GitDiffOk
    \/ GitDiffFail
    \/ ScanLine
    \/ ScanReturn
    \/ NothingStaged
    \/ ReadLogOk
    \/ ReadLogMissing
    \/ FilterEnter
    \/ FilterLine
    \/ FilterReturn
    \/ UncaughtValueError
    \/ MainPrint

Spec == Init /\ [][Next]_vars

\* ------------------------------------- filter_logs called on its own
FilterInit ==
    /\ pc = "filter_enter"
    /\ log_exists = TRUE
    /\ diff_output = <<>>
    /\ diff_pos = 1
    /\ changed_lines \in ChangedLineSets
    /\ current_file = None
    /\ current_line = 0
    /\ logs \in LogTexts
    /\ log_pos = 1
    /\ filtered = <<>>
    /\ stdout = <<>>
    /\ stderr = <<>>
    /\ exit_status = <<>>
    /\ git_calls = 0
    /\ log_reads = 0

FilterNext ==
    \/ FilterEnter
    \/ FilterLine
    \/ FilterReturn

FilterSpec == FilterInit /\ [][FilterNext]_vars

\* =================================================== get_changed_lines
\* The reference reading of a unified diff, against which the recorded line
\* numbers are judged: a hunk header `@@ -a[,b] +c[,d] @@` (a missing count
\* is 1) sets the new-file cursor to c; an added line takes the cursor and
\* advances it, a context line advances it, a removed line does not exist in
\* the new file and leaves it alone.
AfterOptCount(s, p) ==
    IF p > 0 /\ Occurs(s, <<",">>, p) THEN AfterDigits(s, p + 1) ELSE p

NumberAt(s, p) == ToInt(SubSeq(s, p, DigitRun(s, p)))

CountAt(s, p) == IF Occurs(s, <<",">>, p) THEN NumberAt(s, p + 1) ELSE 1

RefOld(line) == After(line, 1, <<"@", "@", " ", "-">>)
RefNew(line) ==
    After(line, AfterOptCount(line, AfterDigits(line, RefOld(line))),
          <<" ", "+">>)
RefEnd(line) ==
    After(line, AfterOptCount(line, AfterDigits(line, RefNew(line))),
          <<" ", "@", "@">>)

RefIsHunk(line) == RefEnd(line) > 0
RefOldCount(line) == CountAt(line, AfterDigits(line, RefOld(line)))
RefNewStart(line) == NumberAt(line, RefNew(line))
RefNewCount(line) == CountAt(line, AfterDigits(line, RefNew(line)))

RefInit ==
    [file |-> None, cursor |-> 0, oldRem |-> 0, newRem |-> 0,
     added |-> EmptyMapping, wellFormed |-> TRUE, bothCounts |-> TRUE]

\* the reference reading of the first n lines of the diff d
RECURSIVE RefScan(_, _)
RefScan(d, n) ==
    IF n = 0 THEN RefInit
    ELSE
        LET r == RefScan(d, n - 1)
            line == d[n]
            hunkOpen == r.oldRem > 0 \/ r.newRem > 0
        IN
        IF StartsWith(line, NEWFILE) THEN
            [r EXCEPT !.file = Strip(Drop(line, 6)),
                      !.cursor = 0, !.oldRem = 0, !.newRem = 0,
                      !.added = WithFreshKey(r.added, Strip(Drop(line, 6))),
                      !.wellFormed = r.wellFormed /\ ~hunkOpen]
        ELSE IF RefIsHunk(line) THEN
            [r EXCEPT !.cursor = RefNewStart(line),
                      !.oldRem = RefOldCount(line),
                      !.newRem = RefNewCount(line),
                      !.wellFormed = r.wellFormed /\ ~hunkOpen /\ r.file # None,
                      !.bothCounts = r.bothCounts /\ HunkMatches(line)]
        ELSE IF StartsWith(line, PLUS) THEN
            IF r.newRem > 0 THEN
                [r EXCEPT !.added = WithLine(r.added, r.file, r.cursor),
                          !.cursor = r.cursor + 1,
                          !.newRem = r.newRem - 1]
            ELSE [r EXCEPT !.wellFormed = FALSE]
        ELSE IF StartsWith(line, SPACE) THEN
            IF r.newRem > 0 /\ r.oldRem > 0 THEN
                [r EXCEPT !.cursor = r.cursor + 1,
                          !.newRem = r.newRem - 1,
                          !.oldRem = r.oldRem - 1]
            ELSE [r EXCEPT !.wellFormed = FALSE]
        ELSE IF StartsWith(line, MINUS) THEN
            IF r.oldRem > 0 THEN [r EXCEPT !.oldRem = r.oldRem - 1]
            ELSE [r EXCEPT !.wellFormed = FALSE]
        ELSE
            [r EXCEPT !.wellFormed = r.wellFormed /\ ~hunkOpen]

Scanned == RefScan(diff_output, diff_pos - 1)

HeaderSeen ==
    \E n \in 1..(diff_pos - 1) : StartsWith(diff_output[n], NEWFILE)

\* C2: for every staged diff git can print (here even only those whose hunk
\* headers carry both counts), every line number get_changed_lines has
\* recorded for a file is the new-file line number of a line that diff adds
\* to the file.
C2_RecordedLinesAreAdded ==
    (pc = "scan" /\ Scanned.wellFormed /\ Scanned.bothCounts) =>
        \A f \in DOMAIN changed_lines :
            /\ f \in DOMAIN Scanned.added
            /\ changed_lines[f] \subseteq Scanned.added[f]

\* C9: every line number stored in the mapping get_changed_lines builds is a
\* positive integer, for every diff text.
C9_LineNumbersPositive ==
    \A f \in DOMAIN changed_lines : \A n \in changed_lines[f] : n >= 1

\* C10: once a file header has been seen, a diff line that begins with `+`
\* and is not the `+++ b/` header records current_line in the current
\* file's set, advances current_line by one and leaves current_file alone.
C10_PlusLineIsAdded ==
    [][(/\ pc = "scan"
        /\ diff_pos <= Len(diff_output)
        /\ HeaderSeen
        /\ StartsWith(diff_output[diff_pos], PLUS)
        /\ ~StartsWith(diff_output[diff_pos], NEWFILE))
       => (/\ current_file' = current_file
           /\ current_line' = current_line + 1
           /\ current_file \in DOMAIN changed_lines'
           /\ current_line \in changed_lines'[current_file])]_vars

\* ========================================================== filter_logs
InSeq(x, q) == \E n \in 1..Len(q) : q[n] = x

RECURSIVE IsSubseq(_, _)
IsSubseq(a, b) ==
    IF a = <<>> THEN TRUE
    ELSE IF b = <<>> THEN FALSE
    ELSE IF a[1] = b[1] THEN IsSubseq(Tail(a), Tail(b))
    ELSE IsSubseq(a, Tail(b))

\* filter_logs has decided whether logs[k] is kept
Decided(k) ==
    /\ k \in 1..Len(logs)
    /\ \/ pc \in {"filter", "raised"} /\ k < log_pos
       \/ pc = "print"

Structured(log) == LogMatches(log)

HasMarker(log) == Contains(Strip(LogPath(log)), MARKER)

\* the lengths q such that the path of log is its first q characters
\* followed by key
PrefixesOf(log, key) ==
    LET path == LogPath(log)
    IN  {q \in {Len(path) - Len(key)} : q >= 0 /\ path = SubSeq(path, 1, q) \o key}

\* C1: a structured log line whose path holds the `src/` marker is kept if
\* and only if the path from the marker on is a key of the mapping and the
\* line number is in that key's set; it is never kept for merely containing
\* a key.
C1_StructuredKeptIffChangedLine ==
    \A k \in 1..Len(logs) :
        (Decided(k) /\ Structured(logs[k]) /\ HasMarker(logs[k])) =>
            (InSeq(logs[k], filtered) <=>
                LET p == Strip(LogPath(logs[k]))
                    key == SubSeq(p, SetMin(Positions(p, MARKER)), Len(p))
                IN  /\ key \in DOMAIN changed_lines
                    /\ ToInt(LogLineNum(logs[k])) \in changed_lines[key])

\* a line of src/a at a changed line is kept, one at an unchanged line of
\* the same file is dropped although it contains the key
C1_Witness ==
    /\ pc = "print"
    /\ logs = <<LogA1, LogA2Col>>
    /\ filtered = <<LogA1>>
    /\ changed_lines = (KeyA :> {1})

\* C3: with a non-empty mapping, a log line that does not match the
\* structured pattern is kept if and only if some key of the mapping occurs
\* in it as a substring.
C3_UnstructuredKeptIffNamesKey ==
    \A k \in 1..Len(logs) :
        (Decided(k) /\ DOMAIN changed_lines # {} /\ ~Structured(logs[k])) =>
            (InSeq(logs[k], filtered) <=>
                \E key \in DOMAIN changed_lines :
                    \E q \in 1..Len(logs[k]) :
                        /\ q + Len(key) - 1 <= Len(logs[k])
                        /\ SubSeq(logs[k], q, q + Len(key) - 1) = key)

\* the summary line naming src/a is kept, the line naming no key is dropped
C3_Witness ==
    /\ pc = "print"
    /\ logs = <<LogSummaryA, LogPlain>>
    /\ filtered = <<LogSummaryA>>
    /\ KeyA \in DOMAIN changed_lines

\* C4: the output of filter_logs is a subsequence of the log lines in their
\* order, each input position used at most once; an empty mapping or an
\* empty log gives an empty output.
C4_OutputIsSubsequence ==
    /\ IsSubseq(filtered, SubSeq(logs, 1, log_pos - 1))
    /\ (pc = "print" /\ DOMAIN changed_lines = {}) => filtered = <<>>
    /\ (pc = "print" /\ logs = <<>>) => filtered = <<>>

\* two different lines are kept, in the order of the log
C4_Witness ==
    /\ pc = "print"
    /\ logs = <<LogA1, LogSummaryA>>
    /\ filtered = <<LogA1, LogSummaryA>>

\* C5 as stated: a structured line whose path is a `src/`-rooted key after
\* any prefix is kept whenever its line number is in the key's set.
C5_AnyPrefixNormalizes ==
    \A k \in 1..Len(logs) :
        (Decided(k) /\ Structured(logs[k])) =>
            \A key \in DOMAIN changed_lines :
                (/\ StartsWith(key, MARKER)
                 /\ PrefixesOf(logs[k], key) # {}
                 /\ ToInt(LogLineNum(logs[k])) \in changed_lines[key])
                => InSeq(logs[k], filtered)

\* C5 as amended: a structured line whose path is a `src/`-rooted key after
\* a prefix that does not itself contain `src/` is kept whenever its line
\* number is in the key's set.
C5_MarkerFreePrefixNormalizes ==
    \A k \in 1..Len(logs) :
        (Decided(k) /\ Structured(logs[k])) =>
            \A key \in DOMAIN changed_lines :
                (/\ StartsWith(key, MARKER)
                 /\ \E q \in PrefixesOf(logs[k], key) :
                        ~Contains(SubSeq(LogPath(logs[k]), 1, q), MARKER)
                 /\ ToInt(LogLineNum(logs[k])) \in changed_lines[key])
                => InSeq(logs[k], filtered)

\* the line with the path /h/src/a is kept for the key src/a
C5_Witness ==
    /\ pc = "print"
    /\ logs = <<LogPrefixedA1>>
    /\ filtered = <<LogPrefixedA1>>
    /\ changed_lines = (KeyA :> {1})

\* C6: a structured log line whose path has no `src/` marker is left out of
\* the output and the run goes on with the lines after it.
C6_NoMarkerLineIsSkipped ==
    \A k \in 1..Len(logs) :
        (/\ pc \in {"filter", "raised"}
         /\ k <= log_pos
         /\ Structured(logs[k])
         /\ ~HasMarker(logs[k]))
        => (pc # "raised" /\ ~InSeq(logs[k], filtered))

\* ================================================================= main
Printed(stream, kind) == \E n \in 1..Len(stream) : stream[n].kind = kind

GitFailed == Printed(stderr, "git_error")

GitSucceeded == git_calls = 1 /\ ~GitFailed

\* C7 as stated: exit status 0 when nothing is staged or filtering
\* completes; non-zero, with no filtered line printed, when git fails or the
\* log file is missing; nothing is retried.
C7_ExitStatus ==
    pc = "exited" =>
        /\ (GitSucceeded /\ DOMAIN changed_lines = {}) => exit_status = <<0>>
        /\ Printed(stdout, "banner_filtered") => exit_status = <<0>>
        /\ (GitFailed \/ ~log_exists) =>
              (exit_status # <<0>> /\ ~Printed(stdout, "log"))
        /\ git_calls <= 1
        /\ log_reads <= 1

\* C7 as amended: the missing log file is fatal on the runs that read it,
\* those whose staged diff gave a non-empty mapping.
C7_ExitStatusWhenLogIsRead ==
    pc = "exited" =>
        /\ (GitSucceeded /\ DOMAIN changed_lines = {}) => exit_status = <<0>>
        /\ Printed(stdout, "banner_filtered") => exit_status = <<0>>
        /\ (GitFailed \/ (~log_exists /\ DOMAIN changed_lines # {})) =>
              (exit_status # <<0>> /\ ~Printed(stdout, "log"))
        /\ git_calls <= 1
        /\ log_reads <= 1

\* something is staged and the log file is missing: exit status 1
C7_Witness ==
    /\ pc = "exited"
    /\ ~log_exists
    /\ DOMAIN changed_lines # {}
    /\ log_reads = 1
    /\ exit_status = <<1>>

\* C8: the mapping is empty exactly when no `+++ b/` header was scanned; on
\* an empty mapping main prints the message and exits 0 without reading the
\* log file or printing the second banner, whether or not the log file
\* exists; on a non-empty mapping, also one whose sets are all empty, the
\* run reads the log and, when the file exists, filters it.
C8_NothingStagedExitsEarly ==
    /\ pc = "scan" => (DOMAIN changed_lines = {} <=> ~HeaderSeen)
    /\ (pc = "exited" /\ GitSucceeded /\ DOMAIN changed_lines = {}) =>
          /\ exit_status = <<0>>
          /\ Printed(stderr, "nothing_staged")
          /\ log_reads = 0
          /\ ~Printed(stdout, "banner_filtered")
          /\ ~Printed(stdout, "log")
    /\ (pc = "exited" /\ GitSucceeded /\ DOMAIN changed_lines # {}) =>
          /\ log_reads = 1
          /\ ~Printed(stderr, "nothing_staged")
          /\ log_exists =>
                (Printed(stdout, "banner_filtered") \/ Printed(stderr, "traceback"))

\* a file with no added line: the mapping has the key, the log was read and
\* filtered
C8_Witness ==
    /\ pc = "exited"
    /\ changed_lines = (KeyA :> {})
    /\ log_reads = 1
    /\ Printed(stdout, "banner_filtered")
    /\ logs # <<>>

====
